---------------------------- MODULE Spec2Model ----------------------------
(* Model of deploy/ci: the GithubGoogleRegistry component.                 *)
(* NewGithubGoogleRegistry registers the component and runs deploy, which  *)
(* declares the resources one engine call at a time; every engine call     *)
(* may return an error, which aborts the declaration sequence.             *)
(* Strings are TLA+ strings; Len, \o and SubSeq act on them as Go's len,   *)
(* + and slicing do on the ASCII strings used here.                        *)
EXTENDS Integers, Sequences, FiniteSets, TLC

VARIABLES config, pc, err, ret, l, declared, r, attempted, env, exports, ciInfra,
          resolved

vars == <<config, pc, err, ret, l, declared, r, attempted, env, exports, ciInfra,
          resolved>>

(* What the declaration pass never touches: the process environment is    *)
(* never written, the exports and the stack are main's own, and outputs    *)
(* are resolved by the engine.                                             *)
mainVars == <<env, exports, ciInfra, resolved>>

-----------------------------------------------------------------------------
(* Bounds of the explored configurations *)

MaxPrefixLen == 33

MaxRepoNameLen == 40

-----------------------------------------------------------------------------
(* String helpers *)

RECURSIVE Rep(_, _)
Rep(c, n) == IF n <= 0 THEN "" ELSE c \o Rep(c, n - 1)

StartsWith(s, p) == Len(s) >= Len(p) /\ SubSeq(s, 1, Len(p)) = p

EndsWith(s, p) == Len(s) >= Len(p) /\ SubSeq(s, Len(s) - Len(p) + 1, Len(s)) = p

-----------------------------------------------------------------------------
(* Program constants *)

IdentityPoolIdMaxLen == 32

IdentityProviderIdMaxLen == 32

ServiceAccountIdMaxLen == 30

RepositoryIdMaxLen == 63

GithubURLPrefixLen == 19

SBOMRetentionAge == 365

-----------------------------------------------------------------------------
(* Pure functions of registry.go *)

(* Variant without the slice: the name is passed through whatever its length *)
capToMax_NoSlice(identityProviderName, maxLen) == identityProviderName

capToMax(identityProviderName, maxLen) ==
    IF Len(identityProviderName) > maxLen
    THEN SubSeq(identityProviderName, 1, maxLen)
    ELSE identityProviderName

(* Variant whose length test admits the bare prefix (>= instead of >) *)
extractRepoName_AdmitsBarePrefix(repoURL) ==
    IF Len(repoURL) >= GithubURLPrefixLen
       /\ SubSeq(repoURL, 1, GithubURLPrefixLen) = "https://github.com/"
    THEN SubSeq(repoURL, GithubURLPrefixLen + 1, Len(repoURL))
    ELSE repoURL

extractRepoName(repoURL) ==
    IF Len(repoURL) > GithubURLPrefixLen
       /\ SubSeq(repoURL, 1, GithubURLPrefixLen) = "https://github.com/"
    THEN SubSeq(repoURL, GithubURLPrefixLen + 1, Len(repoURL))
    ELSE repoURL

(* Variant that tests RepositoryOwner where it should test RepositoryOwnerID *)
buildAttributeCondition_WrongGuard(repoName, cfg) ==
    LET c0 == "attribute.repository == \"" \o repoName \o "\""
        c1 == IF cfg.RepositoryOwner # ""
              THEN c0 \o " && attribute.repository_owner == \""
                      \o cfg.RepositoryOwner \o "\""
              ELSE c0
        c2 == IF cfg.RepositoryOwner # ""
              THEN c1 \o " && attribute.repository_owner_id == \""
                      \o cfg.RepositoryOwnerID \o "\""
              ELSE c1
        c3 == IF cfg.RepositoryID # ""
              THEN c2 \o " && attribute.repository_id == \""
                      \o cfg.RepositoryID \o "\""
              ELSE c2
    IN c3

buildAttributeCondition(repoName, cfg) ==
    LET c0 == "attribute.repository == \"" \o repoName \o "\""
        c1 == IF cfg.RepositoryOwner # ""
              THEN c0 \o " && attribute.repository_owner == \""
                      \o cfg.RepositoryOwner \o "\""
              ELSE c0
        c2 == IF cfg.RepositoryOwnerID # ""
              THEN c1 \o " && attribute.repository_owner_id == \""
                      \o cfg.RepositoryOwnerID \o "\""
              ELSE c1
        c3 == IF cfg.RepositoryID # ""
              THEN c2 \o " && attribute.repository_id == \""
                      \o cfg.RepositoryID \o "\""
              ELSE c2
    IN c3

(* namer.Namer.NewResourceName of the commodity-namer dependency: the      *)
(* prefix, the name and the optional resource type joined with dashes and  *)
(* capped to maxLength.                                                    *)
NewResourceName(prefix, serviceName, resourceType, maxLength) ==
    LET full == IF resourceType = ""
                THEN prefix \o "-" \o serviceName
                ELSE prefix \o "-" \o serviceName \o "-" \o resourceType
    IN IF Len(full) > maxLength THEN SubSeq(full, 1, maxLength) ELSE full

-----------------------------------------------------------------------------
(* Configurations (env.go Config) *)

ResourcePrefixes ==
    {"ci", "ci-with-a-long-prefix", Rep("p", 12)}
        \cup {Rep("p", n) : n \in (MaxPrefixLen - 1)..MaxPrefixLen}

RepositoryNames == {"registry", Rep("r", MaxRepoNameLen)}

AllowedRepoURLs ==
    {"https://github.com/test/repo", "https://github.com/x",
     "https://github.com/", "http://github.com/test/repo", "test/repo", ""}

IdentityPoolProviderNames == {"github-actions-provider", "gh"}

Configs ==
    [GCPProject : {"test-project", "my-project"},
     GCPRegion : {"us-central1"},
     RepositoryLocation : {"us", "us-central1"},
     AllowedRepoURL : AllowedRepoURLs,
     RepositoryOwner : {"", "test"},
     RepositoryOwnerID : {"", "1234567890"},
     RepositoryID : {"", "987654321"},
     IdentityPoolProviderName : IdentityPoolProviderNames,
     ResourcePrefix : ResourcePrefixes,
     RepositoryName : RepositoryNames,
     CreateServiceAccount : BOOLEAN,
     ProtectResources : BOOLEAN,
     RecentImageRetentionCount : {10},
     OldImageDeletionDays : {"30d"}]

-----------------------------------------------------------------------------
(* The engine: what a declaration call gives back *)

EngineErr == "engine error"

(* The resource's Name output: the logical name under the mocks, the       *)
(* provider-computed full resource path under the cloud provider.          *)
PoolNameOutputs(project, name, poolID) ==
    {name, "projects/" \o project \o "/locations/global/workloadIdentityPools/" \o poolID}

ProjectNumbers == {"123456789012", "210987654321"}

AccountEmail(name) == name \o "@test-project.iam.gserviceaccount.com"

-----------------------------------------------------------------------------
(* Fixed tables *)

repoRoles == <<"roles/artifactregistry.writer">>

(* Variant without the bucket viewer role *)
projectRoles_WithoutBucketViewer ==
    <<"roles/containeranalysis.notes.editor",
      "roles/containeranalysis.occurrences.editor">>

projectRoles ==
    <<"roles/containeranalysis.notes.editor",
      "roles/containeranalysis.occurrences.editor",
      "roles/storage.bucketViewer">>

(* Variant that maps the subject from the actor claim *)
AttributeMapping_SubjectFromActor ==
    [k \in {"google.subject", "attribute.repository", "attribute.repository_owner",
            "attribute.repository_owner_id", "attribute.repository_id",
            "attribute.actor", "attribute.ref", "attribute.sha",
            "attribute.workflow", "attribute.head_ref", "attribute.base_ref",
            "attribute.aud"} |->
        CASE k = "google.subject" -> "assertion.actor"
          [] k = "attribute.repository" -> "assertion.repository"
          [] k = "attribute.repository_owner" -> "assertion.repository_owner"
          [] k = "attribute.repository_owner_id" -> "assertion.repository_owner_id"
          [] k = "attribute.repository_id" -> "assertion.repository_id"
          [] k = "attribute.actor" -> "assertion.actor"
          [] k = "attribute.ref" -> "assertion.ref"
          [] k = "attribute.sha" -> "assertion.sha"
          [] k = "attribute.workflow" -> "assertion.workflow"
          [] k = "attribute.head_ref" -> "assertion.head_ref"
          [] k = "attribute.base_ref" -> "assertion.base_ref"
          [] k = "attribute.aud" -> "assertion.aud"]

AttributeMapping ==
    [k \in {"google.subject", "attribute.repository", "attribute.repository_owner",
            "attribute.repository_owner_id", "attribute.repository_id",
            "attribute.actor", "attribute.ref", "attribute.sha",
            "attribute.workflow", "attribute.head_ref", "attribute.base_ref",
            "attribute.aud"} |->
        CASE k = "google.subject" -> "assertion.sub"
          [] k = "attribute.repository" -> "assertion.repository"
          [] k = "attribute.repository_owner" -> "assertion.repository_owner"
          [] k = "attribute.repository_owner_id" -> "assertion.repository_owner_id"
          [] k = "attribute.repository_id" -> "assertion.repository_id"
          [] k = "attribute.actor" -> "assertion.actor"
          [] k = "attribute.ref" -> "assertion.ref"
          [] k = "attribute.sha" -> "assertion.sha"
          [] k = "attribute.workflow" -> "assertion.workflow"
          [] k = "attribute.head_ref" -> "assertion.head_ref"
          [] k = "attribute.base_ref" -> "assertion.base_ref"
          [] k = "attribute.aud" -> "assertion.aud"]

IssuerUri == "https://token.actions.githubusercontent.com"

-----------------------------------------------------------------------------
(* The process environment: env[k] is <<>> when k is not set and <<v>>     *)
(* when it is set to v (possibly to the empty string).                     *)

MaxEnvEdits == 2

EnvKeys ==
    {"GCP_PROJECT", "GCP_REGION", "REPOSITORY_LOCATION", "ALLOWED_REPO_URL",
     "REPOSITORY_OWNER", "REPOSITORY_OWNER_ID", "REPOSITORY_ID",
     "IDENTITY_POOL_PROVIDER_NAME", "RESOURCE_PREFIX", "REPOSITORY_NAME",
     "CREATE_SERVICE_ACCOUNT", "PROTECT_RESOURCES", "RECENT_IMAGE_RETENTION_COUNT",
     "OLD_IMAGE_DELETION_DAYS", "SBOM_RETENTION_DAYS"}

EnvValues(k) ==
    CASE k = "GCP_PROJECT" -> {<<>>, <<"test-project">>, <<"">>}
      [] k = "GCP_REGION" -> {<<>>, <<"us-central1">>, <<"">>}
      [] k = "REPOSITORY_LOCATION" -> {<<>>, <<"us">>, <<"">>}
      [] k = "ALLOWED_REPO_URL" -> {<<>>, <<"https://github.com/test/repo">>}
      [] k = "REPOSITORY_OWNER" -> {<<>>, <<"test">>}
      [] k = "REPOSITORY_OWNER_ID" -> {<<>>, <<"1234567890">>}
      [] k = "REPOSITORY_ID" -> {<<>>, <<"987654321">>}
      [] k = "IDENTITY_POOL_PROVIDER_NAME" -> {<<>>, <<"gh">>}
      [] k = "RESOURCE_PREFIX" -> {<<>>, <<"ci-with-a-long-prefix">>}
      [] k = "REPOSITORY_NAME" -> {<<>>, <<"images">>}
      [] k = "CREATE_SERVICE_ACCOUNT" -> {<<>>, <<"true">>, <<"false">>, <<"maybe">>}
      [] k = "PROTECT_RESOURCES" -> {<<>>, <<"true">>}
      [] k = "RECENT_IMAGE_RETENTION_COUNT" -> {<<>>, <<"5">>, <<"many">>}
      [] k = "OLD_IMAGE_DELETION_DAYS" -> {<<>>, <<"7d">>}
      [] k = "SBOM_RETENTION_DAYS" -> {<<>>, <<"30">>}

(* Every variable set to a well-formed value *)
FullEnv ==
    [k \in EnvKeys |->
        CASE k = "GCP_PROJECT" -> <<"test-project">>
          [] k = "GCP_REGION" -> <<"us-central1">>
          [] k = "REPOSITORY_LOCATION" -> <<"us">>
          [] k = "ALLOWED_REPO_URL" -> <<"https://github.com/test/repo">>
          [] k = "REPOSITORY_OWNER" -> <<"test">>
          [] k = "REPOSITORY_OWNER_ID" -> <<"1234567890">>
          [] k = "REPOSITORY_ID" -> <<"987654321">>
          [] k = "IDENTITY_POOL_PROVIDER_NAME" -> <<"gh">>
          [] k = "RESOURCE_PREFIX" -> <<"ci-with-a-long-prefix">>
          [] k = "REPOSITORY_NAME" -> <<"images">>
          [] k = "CREATE_SERVICE_ACCOUNT" -> <<"true">>
          [] k = "PROTECT_RESOURCES" -> <<"true">>
          [] k = "RECENT_IMAGE_RETENTION_COUNT" -> <<"5">>
          [] k = "OLD_IMAGE_DELETION_DAYS" -> <<"7d">>
          [] k = "SBOM_RETENTION_DAYS" -> <<"30">>]

(* Only the two documented required variables set *)
MinimalEnv ==
    [k \in EnvKeys |->
        IF k \in {"GCP_PROJECT", "GCP_REGION"} THEN FullEnv[k] ELSE <<>>]

RECURSIVE EnvsWithin(_, _)
EnvsWithin(E, n) ==
    IF n <= 0 THEN E
    ELSE EnvsWithin(
             E \cup UNION {UNION {{[e EXCEPT ![k] = v] : v \in EnvValues(k)}
                                  : k \in EnvKeys} : e \in E},
             n - 1)

(* Environments of the main program: at most MaxEnvEdits variables away    *)
(* from the full or from the minimal environment.                          *)
Envs == EnvsWithin({FullEnv, MinimalEnv}, MaxEnvEdits)

(* Environments of a program that builds its Config itself *)
ComponentEnvs ==
    {[MinimalEnv EXCEPT !["SBOM_RETENTION_DAYS"] = v] :
        v \in EnvValues("SBOM_RETENTION_DAYS")}

-----------------------------------------------------------------------------
(* env.go: the Config struct tags and LoadConfig *)

(* Variant in which GCP_REGION is not marked required *)
ConfigTags_RegionOptional ==
    <<[field |-> "GCPProject", key |-> "GCP_PROJECT", required |-> TRUE,
       default |-> "", kind |-> "string"],
      [field |-> "GCPRegion", key |-> "GCP_REGION", required |-> FALSE,
       default |-> "", kind |-> "string"],
      [field |-> "RepositoryLocation", key |-> "REPOSITORY_LOCATION", required |-> FALSE,
       default |-> "", kind |-> "string"],
      [field |-> "AllowedRepoURL", key |-> "ALLOWED_REPO_URL", required |-> FALSE,
       default |-> "https://github.com/davidmontoyago/pulumi-gcp-github-registry",
       kind |-> "string"],
      [field |-> "RepositoryOwner", key |-> "REPOSITORY_OWNER", required |-> FALSE,
       default |-> "", kind |-> "string"],
      [field |-> "RepositoryOwnerID", key |-> "REPOSITORY_OWNER_ID", required |-> FALSE,
       default |-> "", kind |-> "string"],
      [field |-> "RepositoryID", key |-> "REPOSITORY_ID", required |-> FALSE,
       default |-> "", kind |-> "string"],
      [field |-> "IdentityPoolProviderName", key |-> "IDENTITY_POOL_PROVIDER_NAME",
       required |-> FALSE, default |-> "github-actions-provider", kind |-> "string"],
      [field |-> "ResourcePrefix", key |-> "RESOURCE_PREFIX", required |-> FALSE,
       default |-> "ci", kind |-> "string"],
      [field |-> "RepositoryName", key |-> "REPOSITORY_NAME", required |-> FALSE,
       default |-> "registry", kind |-> "string"],
      [field |-> "CreateServiceAccount", key |-> "CREATE_SERVICE_ACCOUNT",
       required |-> FALSE, default |-> "false", kind |-> "bool"],
      [field |-> "ProtectResources", key |-> "PROTECT_RESOURCES", required |-> FALSE,
       default |-> "false", kind |-> "bool"],
      [field |-> "RecentImageRetentionCount", key |-> "RECENT_IMAGE_RETENTION_COUNT",
       required |-> FALSE, default |-> "10", kind |-> "int"],
      [field |-> "OldImageDeletionDays", key |-> "OLD_IMAGE_DELETION_DAYS",
       required |-> FALSE, default |-> "30d", kind |-> "string"]>>

(* One entry per Config field, in declaration order: the envconfig,        *)
(* required and default tags and the Go type of the field.                 *)
ConfigTags ==
    <<[field |-> "GCPProject", key |-> "GCP_PROJECT", required |-> TRUE,
       default |-> "", kind |-> "string"],
      [field |-> "GCPRegion", key |-> "GCP_REGION", required |-> TRUE,
       default |-> "", kind |-> "string"],
      [field |-> "RepositoryLocation", key |-> "REPOSITORY_LOCATION", required |-> FALSE,
       default |-> "", kind |-> "string"],
      [field |-> "AllowedRepoURL", key |-> "ALLOWED_REPO_URL", required |-> FALSE,
       default |-> "https://github.com/davidmontoyago/pulumi-gcp-github-registry",
       kind |-> "string"],
      [field |-> "RepositoryOwner", key |-> "REPOSITORY_OWNER", required |-> FALSE,
       default |-> "", kind |-> "string"],
      [field |-> "RepositoryOwnerID", key |-> "REPOSITORY_OWNER_ID", required |-> FALSE,
       default |-> "", kind |-> "string"],
      [field |-> "RepositoryID", key |-> "REPOSITORY_ID", required |-> FALSE,
       default |-> "", kind |-> "string"],
      [field |-> "IdentityPoolProviderName", key |-> "IDENTITY_POOL_PROVIDER_NAME",
       required |-> FALSE, default |-> "github-actions-provider", kind |-> "string"],
      [field |-> "ResourcePrefix", key |-> "RESOURCE_PREFIX", required |-> FALSE,
       default |-> "ci", kind |-> "string"],
      [field |-> "RepositoryName", key |-> "REPOSITORY_NAME", required |-> FALSE,
       default |-> "registry", kind |-> "string"],
      [field |-> "CreateServiceAccount", key |-> "CREATE_SERVICE_ACCOUNT",
       required |-> FALSE, default |-> "false", kind |-> "bool"],
      [field |-> "ProtectResources", key |-> "PROTECT_RESOURCES", required |-> FALSE,
       default |-> "false", kind |-> "bool"],
      [field |-> "RecentImageRetentionCount", key |-> "RECENT_IMAGE_RETENTION_COUNT",
       required |-> FALSE, default |-> "10", kind |-> "int"],
      [field |-> "OldImageDeletionDays", key |-> "OLD_IMAGE_DELETION_DAYS",
       required |-> FALSE, default |-> "30d", kind |-> "string"]>>

(* var config Config: the zero value *)
ZeroConfig ==
    [GCPProject |-> "", GCPRegion |-> "", RepositoryLocation |-> "",
     AllowedRepoURL |-> "", RepositoryOwner |-> "", RepositoryOwnerID |-> "",
     RepositoryID |-> "", IdentityPoolProviderName |-> "", ResourcePrefix |-> "",
     RepositoryName |-> "", CreateServiceAccount |-> FALSE, ProtectResources |-> FALSE,
     RecentImageRetentionCount |-> 0, OldImageDeletionDays |-> ""]

(* strconv.ParseBool *)
ParseBoolTrue == {"1", "t", "T", "TRUE", "true", "True"}

ParseBoolFalse == {"0", "f", "F", "FALSE", "false", "False"}

Digits == <<"0", "1", "2", "3", "4", "5", "6", "7", "8", "9">>

IsDigit(c) == \E d \in 1..10 : Digits[d] = c

DigitValue(c) == (CHOOSE d \in 1..10 : Digits[d] = c) - 1

(* strconv.ParseInt on an unsigned decimal literal *)
IsDecimal(value) ==
    /\ Len(value) > 0
    /\ \A i \in 1..Len(value) : IsDigit(SubSeq(value, i, i))

RECURSIVE DecimalValue(_)
DecimalValue(value) ==
    IF Len(value) = 0 THEN 0
    ELSE 10 * DecimalValue(SubSeq(value, 1, Len(value) - 1))
             + DigitValue(SubSeq(value, Len(value), Len(value)))

(* envconfig.processField: the value converted to the field's type *)
FieldParses(kind, value) ==
    CASE kind = "string" -> TRUE
      [] kind = "bool" -> value \in ParseBoolTrue \cup ParseBoolFalse
      [] kind = "int" -> IsDecimal(value)

FieldValue(kind, value) ==
    CASE kind = "string" -> value
      [] kind = "bool" -> value \in ParseBoolTrue
      [] kind = "int" -> DecimalValue(value)

(* envconfig.Process("", &config): the fields are filled in declaration    *)
(* order; a variable that is not set takes the default tag, a variable     *)
(* with neither a value nor a default is an error if required and left at  *)
(* the zero value otherwise; a value that does not convert is an error.    *)
RECURSIVE Process(_, _, _, _)
Process(tags, e, i, cfg) ==
    IF i > Len(tags) THEN [err |-> "", config |-> cfg]
    ELSE LET t == tags[i]
             ok == e[t.key] # <<>>
             value == IF ok THEN e[t.key][1] ELSE t.default
         IN IF ~ok /\ t.default = ""
            THEN IF t.required
                 THEN [err |-> "required key " \o t.key \o " missing value",
                       config |-> cfg]
                 ELSE Process(tags, e, i + 1, cfg)
            ELSE IF ~FieldParses(t.kind, value)
                 THEN [err |-> "envconfig.Process: assigning " \o t.key \o " to "
                                   \o t.field \o ": converting '" \o value
                                   \o "' to type " \o t.kind,
                       config |-> cfg]
                 ELSE Process(tags, e, i + 1,
                              [cfg EXCEPT ![t.field] = FieldValue(t.kind, value)])

(* LoadConfig: <<>> stands for the nil *Config *)
LoadConfig(e) ==
    LET p == Process(ConfigTags, e, 1, ZeroConfig)
    IN IF p.err # ""
       THEN [config |-> <<>>,
             err |-> "failed to load configuration from environment variables: "
                         \o p.err]
       ELSE [config |-> <<IF p.config.RepositoryLocation = ""
                          THEN [p.config EXCEPT !.RepositoryLocation = p.config.GCPRegion]
                          ELSE p.config>>,
             err |-> ""]

-----------------------------------------------------------------------------
(* State after the GithubGoogleRegistry struct literal is built *)

NoFields ==
    [RegistryURL |-> "",
     WorkloadIdentityPoolProviderID |-> "",
     RepositoryPrincipalID |-> "",
     RepositoryIAMMembers |-> <<>>,
     ProjectIAMMembers |-> <<>>,
     WorkloadIdentityPool |-> <<>>,
     OidcProvider |-> <<>>,
     GitHubActionsServiceAccount |-> <<>>,
     SBOMBucket |-> <<>>,
     SBOMBucketIAMMember |-> <<>>]

NoLocals ==
    [registryAPI |-> <<>>,
     registry |-> <<>>,
     repoName |-> "",
     workloadIdentityPool |-> <<>>,
     oidcProvider |-> <<>>,
     repoPrincipalID |-> "",
     repoIAMMembers |-> <<>>,
     projectIAMMembers |-> <<>>,
     sbomBucket |-> <<>>,
     sbomBucketIAMMember |-> <<>>,
     githubActionsSA |-> <<>>,
     saIAMMember |-> <<>>,
     project |-> <<>>]

(* The outputs the provider path is formatted from, and the path itself *)
OutputNames ==
    {"project.Number", "workloadIdentityPool.WorkloadIdentityPoolId",
     "oidcProvider.WorkloadIdentityPoolProviderId", "WorkloadIdentityPoolProviderID"}

NoneResolved == [o \in OutputNames |-> <<>>]

Init ==
    /\ config \in Configs
    /\ pc = "register"
    /\ err = ""
    /\ ret = "pending"
    /\ l = NoLocals
    /\ declared = <<>>
    /\ r = NoFields
    /\ attempted = <<>>
    /\ env \in ComponentEnvs
    /\ exports = <<>>
    /\ ciInfra = <<>>
    /\ resolved = NoneResolved

(* NewGithubGoogleRegistry returns nil and the wrapped error *)
RegisterFails(e) ==
    /\ pc' = "failed"
    /\ err' = "failed to register component resource: " \o e
    /\ ret' = "nil"

(* Variant that hands the inner error back without the constructor's prefix *)
DeployFails_Unwrapped(e) ==
    /\ pc' = "failed"
    /\ err' = e
    /\ ret' = "nil"

DeployFails(e) ==
    /\ pc' = "failed"
    /\ err' = "failed to deploy component resources: " \o e
    /\ ret' = "nil"

(* One call to the engine, with its outcome *)
Invoke(type, name, ok) ==
    attempted' = Append(attempted, [type |-> type, name |-> name, ok |-> ok])

(* Variant that hands the flag to every declaration *)
ProtectOption_OnEveryResource(type, cfg) == <<cfg.ProtectResources>>

(* The pulumi.Protect option of a declaration: only the repository is      *)
(* declared with one, every other call passes pulumi.Parent alone          *)
ProtectOption(type, cfg) ==
    IF type = "gcp:artifactregistry/repository:Repository"
    THEN <<cfg.ProtectResources>>
    ELSE <<>>

Declare(type, name) ==
    /\ declared' = Append(declared, [type |-> type, name |-> name,
                                     protect |-> ProtectOption(type, config)])
    /\ Invoke(type, name, TRUE)

DeclareFails(type, name) ==
    /\ Invoke(type, name, FALSE)
    /\ UNCHANGED declared

-----------------------------------------------------------------------------
(* NewGithubGoogleRegistry: ctx.RegisterComponentResource *)

RegisterComponentResource ==
    /\ pc = "register"
    /\ \/ /\ pc' = "enableRegistryAPI"
          /\ Declare("pulumi-gcp-github-registry:ci:GithubGoogleRegistry",
                     config.ResourcePrefix \o "-" \o config.RepositoryName)
          /\ UNCHANGED <<err, ret>>
       \/ /\ RegisterFails(EngineErr)
          /\ DeclareFails("pulumi-gcp-github-registry:ci:GithubGoogleRegistry",
                          config.ResourcePrefix \o "-" \o config.RepositoryName)
    /\ UNCHANGED <<config, l, r, mainVars>>

(* deploy: r.enableRegistryAPI *)
enableRegistryAPI ==
    /\ pc = "enableRegistryAPI"
    /\ LET name == NewResourceName(config.ResourcePrefix, "artifactregistry", "api",
                                   RepositoryIdMaxLen)
       IN \/ /\ pc' = "newRepository"
             /\ l' = [l EXCEPT !.registryAPI =
                         <<[name |-> name,
                            Project |-> config.GCPProject,
                            Service |-> "artifactregistry.googleapis.com",
                            RetainOnDelete |-> TRUE]>>]
             /\ Declare("gcp:projects/service:Service", name)
             /\ UNCHANGED <<err, ret>>
          \/ /\ DeployFails("failed to enable Artifact Registry API: "
                            \o "failed to enable Artifact Registry API: " \o EngineErr)
             /\ DeclareFails("gcp:projects/service:Service", name)
             /\ UNCHANGED l
    /\ UNCHANGED <<config, r, mainVars>>

(* Variant that declares the repository without the dependency *)
RepositoryDependsOn_Nothing(registryAPI) == {}

(* deploy: pulumi.DependsOn([]pulumi.Resource{registryAPI}) *)
RepositoryDependsOn(registryAPI) == {registryAPI.name}

(* deploy: artifactregistry.NewRepository, then extractRepoName *)
NewRepository ==
    /\ pc = "newRepository"
    /\ LET repoResourceName ==
               NewResourceName(config.ResourcePrefix, config.RepositoryName, "repo",
                               RepositoryIdMaxLen)
           repositoryID ==
               NewResourceName(config.ResourcePrefix, config.RepositoryName, "",
                               RepositoryIdMaxLen)
       IN \/ /\ pc' = "newWorkloadIdentityPool"
             /\ l' = [l EXCEPT
                        !.registry =
                            <<[name |-> repoResourceName,
                               Name |-> repoResourceName,
                               RepositoryId |-> repositoryID,
                               Location |-> config.RepositoryLocation,
                               Project |-> config.GCPProject,
                               Format |-> "DOCKER",
                               Labels |-> [k \in {"managed-by", "purpose"} |->
                                              IF k = "managed-by" THEN "pulumi"
                                              ELSE "docker-images"],
                               CleanupPolicies |-> <<>>,
                               Protect |-> config.ProtectResources,
                               DependsOn |-> RepositoryDependsOn(l.registryAPI[1])]>>,
                        !.repoName = extractRepoName(config.AllowedRepoURL)]
             /\ Declare("gcp:artifactregistry/repository:Repository", repoResourceName)
             /\ UNCHANGED <<err, ret>>
          \/ /\ DeployFails("failed to create artifact registry repository: " \o EngineErr)
             /\ DeclareFails("gcp:artifactregistry/repository:Repository", repoResourceName)
             /\ UNCHANGED l
    /\ UNCHANGED <<config, r, mainVars>>

(* newGithubActionsOIDCProvider: iam.NewWorkloadIdentityPool *)
NewWorkloadIdentityPool ==
    /\ pc = "newWorkloadIdentityPool"
    /\ LET identityPoolName ==
               capToMax(config.ResourcePrefix \o "-github-actions-pool",
                        IdentityPoolIdMaxLen)
       IN \/ /\ pc' = "newWorkloadIdentityPoolProvider"
             /\ \E nameOut \in PoolNameOutputs(config.GCPProject, identityPoolName,
                                               identityPoolName) :
                    l' = [l EXCEPT !.workloadIdentityPool =
                             <<[name |-> identityPoolName,
                                Name |-> nameOut,
                                WorkloadIdentityPoolId |-> identityPoolName,
                                Project |-> config.GCPProject,
                                Disabled |-> FALSE]>>]
             /\ Declare("gcp:iam/workloadIdentityPool:WorkloadIdentityPool",
                        identityPoolName)
             /\ UNCHANGED <<err, ret>>
          \/ /\ DeployFails("failed to create OIDC provider for GitHub Actions: "
                            \o "failed to create OIDC provider for GitHub Actions: "
                            \o EngineErr)
             /\ DeclareFails("gcp:iam/workloadIdentityPool:WorkloadIdentityPool", identityPoolName)
             /\ UNCHANGED l
    /\ UNCHANGED <<config, r, mainVars>>

(* newGithubActionsOIDCProvider: iam.NewWorkloadIdentityPoolProvider, then *)
(* deploy formats the federated principal                                  *)
NewWorkloadIdentityPoolProvider ==
    /\ pc = "newWorkloadIdentityPoolProvider"
    /\ LET identityProviderName ==
               capToMax(config.ResourcePrefix \o "-" \o config.IdentityPoolProviderName,
                        IdentityProviderIdMaxLen)
           identityPool == l.workloadIdentityPool[1]
       IN \/ /\ pc' = "repoIAM"
             /\ l' = [l EXCEPT
                        !.oidcProvider =
                            <<[name |-> identityProviderName,
                               Name |-> identityProviderName,
                               WorkloadIdentityPoolId |->
                                   identityPool.WorkloadIdentityPoolId,
                               WorkloadIdentityPoolProviderId |-> identityProviderName,
                               Project |-> config.GCPProject,
                               Disabled |-> FALSE,
                               AttributeMapping |-> AttributeMapping,
                               IssuerUri |-> IssuerUri,
                               AttributeCondition |->
                                   buildAttributeCondition(l.repoName, config)]>>,
                        !.repoPrincipalID =
                            "principalSet://iam.googleapis.com/" \o identityPool.Name
                                \o "/attribute.repository/" \o l.repoName]
             /\ Declare("gcp:iam/workloadIdentityPoolProvider:WorkloadIdentityPoolProvider",
                        identityProviderName)
             /\ UNCHANGED <<err, ret>>
          \/ /\ DeployFails("failed to create OIDC provider for GitHub Actions: "
                            \o "failed to create OIDC provider for GitHub Actions: "
                            \o EngineErr)
             /\ DeclareFails("gcp:iam/workloadIdentityPoolProvider:WorkloadIdentityPoolProvider",
                             identityProviderName)
             /\ UNCHANGED l
    /\ UNCHANGED <<config, r, mainVars>>

(* grantPipelineIAM: one artifactregistry.NewRepositoryIamMember per repoRoles entry *)
NewRepositoryIamMember ==
    /\ pc = "repoIAM"
    /\ Len(l.repoIAMMembers) < Len(repoRoles)
    /\ LET role == repoRoles[Len(l.repoIAMMembers) + 1]
           bindingName == config.ResourcePrefix \o "-repo-iam-" \o role
           member == [name |-> bindingName,
                      Repository |-> l.registry[1].Name,
                      Location |-> config.RepositoryLocation,
                      Project |-> config.GCPProject,
                      Role |-> role,
                      Member |-> l.repoPrincipalID]
       IN \/ /\ l' = [l EXCEPT !.repoIAMMembers = Append(@, member)]
             /\ pc' = IF Len(l.repoIAMMembers) + 1 < Len(repoRoles)
                      THEN "repoIAM" ELSE "projectIAM"
             /\ Declare("gcp:artifactregistry/repositoryIamMember:RepositoryIamMember",
                        bindingName)
             /\ UNCHANGED <<err, ret>>
          \/ /\ DeployFails("failed to grant IAM permissions to the pipeline: "
                            \o "failed to create repository IAM member: " \o EngineErr)
             /\ DeclareFails("gcp:artifactregistry/repositoryIamMember:RepositoryIamMember",
                             bindingName)
             /\ UNCHANGED l
    /\ UNCHANGED <<config, r, mainVars>>

(* grantPipelineIAM: one projects.NewIAMMember per projectRoles entry *)
NewProjectIAMMember ==
    /\ pc = "projectIAM"
    /\ Len(l.projectIAMMembers) < Len(projectRoles)
    /\ LET role == projectRoles[Len(l.projectIAMMembers) + 1]
           bindingName == config.ResourcePrefix \o "-project-iam-" \o role
           member == [name |-> bindingName,
                      Project |-> config.GCPProject,
                      Role |-> role,
                      Member |-> l.repoPrincipalID]
       IN \/ /\ l' = [l EXCEPT !.projectIAMMembers = Append(@, member)]
             /\ pc' = IF Len(l.projectIAMMembers) + 1 < Len(projectRoles)
                      THEN "projectIAM" ELSE "newBucket"
             /\ Declare("gcp:projects/iAMMember:IAMMember", bindingName)
             /\ UNCHANGED <<err, ret>>
          \/ /\ DeployFails("failed to grant IAM permissions to the pipeline: "
                            \o "failed to create project IAM member: " \o EngineErr)
             /\ DeclareFails("gcp:projects/iAMMember:IAMMember", bindingName)
             /\ UNCHANGED l
    /\ UNCHANGED <<config, r, mainVars>>

(* Variant that names the bucket after the resource prefix *)
SBOMBucketName_FromPrefix(cfg) == "artifacts-" \o cfg.ResourcePrefix \o "-sbom"

(* createSBOMsBucket: default bucket name for SBOMs *)
SBOMBucketName(cfg) == "artifacts-" \o cfg.GCPProject \o "-sbom"

(* Variant whose deletion age is taken from a configuration value *)
SBOMBucketArgs_AgeFromConfig(cfg, bucketName) ==
    [name |-> bucketName,
     Name |-> bucketName,
     Location |-> cfg.GCPRegion,
     Project |-> cfg.GCPProject,
     ForceDestroy |-> FALSE,
     Versioning |-> TRUE,
     LifecycleRules |-> <<[Action |-> "Delete", Age |-> cfg.RecentImageRetentionCount]>>,
     Labels |-> [k \in {"purpose", "managed-by"} |->
                    IF k = "purpose" THEN "sbom-storage" ELSE "pulumi"],
     PublicAccessPrevention |-> "enforced",
     UniformBucketLevelAccess |-> TRUE]

(* createSBOMsBucket: the bucket as declared *)
SBOMBucketArgs(cfg, bucketName) ==
    [name |-> bucketName,
     Name |-> bucketName,
     Location |-> cfg.GCPRegion,
     Project |-> cfg.GCPProject,
     ForceDestroy |-> FALSE,
     Versioning |-> TRUE,
     LifecycleRules |-> <<[Action |-> "Delete", Age |-> SBOMRetentionAge]>>,
     Labels |-> [k \in {"purpose", "managed-by"} |->
                    IF k = "purpose" THEN "sbom-storage" ELSE "pulumi"],
     PublicAccessPrevention |-> "enforced",
     UniformBucketLevelAccess |-> TRUE]

(* createSBOMsBucket: storage.NewBucket *)
NewBucket ==
    /\ pc = "newBucket"
    /\ LET bucketName == SBOMBucketName(config)
       IN \/ /\ pc' = "newBucketIAMMember"
             /\ l' = [l EXCEPT !.sbomBucket =
                         <<SBOMBucketArgs(config, bucketName)>>]
             /\ Declare("gcp:storage/bucket:Bucket", bucketName)
             /\ UNCHANGED <<err, ret>>
          \/ /\ DeployFails("failed to create SBOM bucket: "
                            \o "failed to create SBOM bucket: " \o EngineErr)
             /\ DeclareFails("gcp:storage/bucket:Bucket", bucketName)
             /\ UNCHANGED l
    /\ UNCHANGED <<config, r, mainVars>>

(* Variant that ignores the flag *)
StepAfterSBOMBucket_IgnoresFlag(cfg) == "newAccount"

(* deploy: the service account path is taken only if CreateServiceAccount *)
StepAfterSBOMBucket(cfg) ==
    IF cfg.CreateServiceAccount THEN "newAccount" ELSE "getProject"

(* createSBOMsBucket: storage.NewBucketIAMMember; deploy then tests        *)
(* config.CreateServiceAccount                                             *)
NewBucketIAMMember ==
    /\ pc = "newBucketIAMMember"
    /\ LET bindingName == config.ResourcePrefix \o "-sbom-bucket-iam"
       IN \/ /\ pc' = StepAfterSBOMBucket(config)
             /\ l' = [l EXCEPT !.sbomBucketIAMMember =
                         <<[name |-> bindingName,
                            Bucket |-> l.sbomBucket[1].Name,
                            Role |-> "roles/storage.objectAdmin",
                            Member |-> l.repoPrincipalID]>>]
             /\ Declare("gcp:storage/bucketIAMMember:BucketIAMMember", bindingName)
             /\ UNCHANGED <<err, ret>>
          \/ /\ DeployFails("failed to create SBOM bucket: "
                            \o "failed to create SBOM bucket IAM member: " \o EngineErr)
             /\ DeclareFails("gcp:storage/bucketIAMMember:BucketIAMMember", bindingName)
             /\ UNCHANGED l
    /\ UNCHANGED <<config, r, mainVars>>

(* newServiceAccountForDelegation: serviceaccount.NewAccount *)
NewAccount ==
    /\ pc = "newAccount"
    /\ LET serviceAccountName ==
               capToMax(config.ResourcePrefix \o "-github-actions-sa",
                        ServiceAccountIdMaxLen)
       IN \/ /\ pc' = "newServiceAccountIAMMember"
             /\ l' = [l EXCEPT !.githubActionsSA =
                         <<[name |-> serviceAccountName,
                            Name |-> serviceAccountName,
                            AccountId |-> serviceAccountName,
                            Project |-> config.GCPProject,
                            Email |-> AccountEmail(serviceAccountName)]>>]
             /\ Declare("gcp:serviceaccount/account:Account", serviceAccountName)
             /\ UNCHANGED <<err, ret>>
          \/ /\ DeployFails("failed to create service account for delegation: "
                            \o "failed to create service account for delegation: "
                            \o EngineErr)
             /\ DeclareFails("gcp:serviceaccount/account:Account", serviceAccountName)
             /\ UNCHANGED l
    /\ UNCHANGED <<config, r, mainVars>>

(* The member bound on the dedicated service account *)
ServiceAccountIAMMemberOf(githubActionsSA, repoPrincipalID) ==
    "serviceAccount:" \o githubActionsSA.Email

(* newServiceAccountForDelegation: serviceaccount.NewIAMMember *)
NewServiceAccountIAMMember ==
    /\ pc = "newServiceAccountIAMMember"
    /\ LET bindingName == config.ResourcePrefix \o "-workload-identity-user"
       IN \/ /\ pc' = "getProject"
             /\ l' = [l EXCEPT !.saIAMMember =
                         <<[name |-> bindingName,
                            ServiceAccountId |-> l.githubActionsSA[1].Name,
                            Role |-> "roles/iam.workloadIdentityUser",
                            Member |-> ServiceAccountIAMMemberOf(l.githubActionsSA[1],
                                                                 l.repoPrincipalID)]>>]
             /\ Declare("gcp:serviceaccount/iAMMember:IAMMember", bindingName)
             /\ UNCHANGED <<err, ret>>
          \/ /\ DeployFails("failed to create service account for delegation: "
                            \o "failed to create service account IAM member: "
                            \o EngineErr)
             /\ DeclareFails("gcp:serviceaccount/iAMMember:IAMMember", bindingName)
             /\ UNCHANGED l
    /\ UNCHANGED <<config, r, mainVars>>

(* Variant that formats the repository's Name output instead of its ID *)
RegistryURLOf_FromName(cfg, registry) ==
    cfg.RepositoryLocation \o "-docker.pkg.dev/" \o cfg.GCPProject \o "/"
        \o registry.Name

(* deploy: the registry URL *)
RegistryURLOf(cfg, registry) ==
    cfg.RepositoryLocation \o "-docker.pkg.dev/" \o cfg.GCPProject \o "/"
        \o registry.RepositoryId

(* Variant that formats the textual project ID instead of the project number *)
WorkloadIdentityPoolProviderIDOf_FromProjectName(cfg, project, workloadIdentityPool, oidcProvider) ==
    "projects/" \o cfg.GCPProject \o "/locations/global/workloadIdentityPools/"
        \o workloadIdentityPool.WorkloadIdentityPoolId \o "/providers/"
        \o oidcProvider.WorkloadIdentityPoolProviderId

(* deploy: the workload identity provider ID to set in the Github auth action *)
WorkloadIdentityPoolProviderIDOf(cfg, project, workloadIdentityPool, oidcProvider) ==
    "projects/" \o project.Number \o "/locations/global/workloadIdentityPools/"
        \o workloadIdentityPool.WorkloadIdentityPoolId \o "/providers/"
        \o oidcProvider.WorkloadIdentityPoolProviderId

(* Variant that leaves the SBOMBucket field unset *)
SetOutputs_WithoutSBOMBucket(locals, registryURL, workloadIdentityPoolProviderID) ==
    [RegistryURL |-> registryURL,
     WorkloadIdentityPoolProviderID |-> workloadIdentityPoolProviderID,
     RepositoryPrincipalID |-> locals.repoPrincipalID,
     RepositoryIAMMembers |-> locals.repoIAMMembers,
     ProjectIAMMembers |-> locals.projectIAMMembers,
     WorkloadIdentityPool |-> locals.workloadIdentityPool,
     OidcProvider |-> locals.oidcProvider,
     GitHubActionsServiceAccount |-> locals.githubActionsSA,
     SBOMBucket |-> <<>>,
     SBOMBucketIAMMember |-> locals.sbomBucketIAMMember]

(* deploy: "Set the outputs" *)
SetOutputs(locals, registryURL, workloadIdentityPoolProviderID) ==
    [RegistryURL |-> registryURL,
     WorkloadIdentityPoolProviderID |-> workloadIdentityPoolProviderID,
     RepositoryPrincipalID |-> locals.repoPrincipalID,
     RepositoryIAMMembers |-> locals.repoIAMMembers,
     ProjectIAMMembers |-> locals.projectIAMMembers,
     WorkloadIdentityPool |-> locals.workloadIdentityPool,
     OidcProvider |-> locals.oidcProvider,
     GitHubActionsServiceAccount |-> locals.githubActionsSA,
     SBOMBucket |-> locals.sbomBucket,
     SBOMBucketIAMMember |-> locals.sbomBucketIAMMember]

(* deploy: organizations.GetProject, then the outputs are set and the      *)
(* constructor returns the component                                       *)
GetProject ==
    /\ pc = "getProject"
    /\ \/ \E number \in ProjectNumbers :
            LET project == [ProjectId |-> config.GCPProject, Number |-> number]
            IN /\ l' = [l EXCEPT !.project = <<project>>]
               /\ r' = SetOutputs(l, RegistryURLOf(config, l.registry[1]),
                                   WorkloadIdentityPoolProviderIDOf(
                                       config, project, l.workloadIdentityPool[1],
                                       l.oidcProvider[1]))
               /\ pc' = "done"
               /\ ret' = "component"
               /\ Invoke("gcp:organizations/project:Project", "get-project", TRUE)
               /\ UNCHANGED err
       \/ /\ DeployFails("failed to get project numeric ID: " \o EngineErr)
          /\ Invoke("gcp:organizations/project:Project", "get-project", FALSE)
          /\ UNCHANGED <<l, r>>
    /\ UNCHANGED <<config, declared, mainVars>>

Next ==
    \/ RegisterComponentResource
    \/ enableRegistryAPI
    \/ NewRepository
    \/ NewWorkloadIdentityPool
    \/ NewWorkloadIdentityPoolProvider
    \/ NewRepositoryIamMember
    \/ NewProjectIAMMember
    \/ NewBucket
    \/ NewBucketIAMMember
    \/ NewAccount
    \/ NewServiceAccountIAMMember
    \/ GetProject

Spec == Init /\ [][Next]_vars

-----------------------------------------------------------------------------
(* main.go: LoadConfig, NewGithubGoogleRegistryStack, the exports.         *)
(* Here config is main's *Config and ciInfra the returned stack, <<>> for  *)
(* nil; the stack constructor is one call of main, with the engine calls   *)
(* it makes in declared and attempted.                                     *)

(* The resource ID the engine gives back *)
ResourceID(name) == name \o "_id"

(* NewGithubGoogleRegistryStack: the engine calls it makes, in order *)
StackDeclarations(cfg) ==
    <<[type |-> "gcp:artifactregistry/repository:Repository",
       name |-> capToMax(cfg.ResourcePrefix \o "-" \o cfg.RepositoryName,
                         RepositoryIdMaxLen)],
      [type |-> "gcp:iam/workloadIdentityPool:WorkloadIdentityPool",
       name |-> capToMax(cfg.ResourcePrefix \o "-github-actions-pool",
                         IdentityPoolIdMaxLen)],
      [type |-> "gcp:iam/workloadIdentityPoolProvider:WorkloadIdentityPoolProvider",
       name |-> capToMax(cfg.ResourcePrefix \o "-" \o cfg.IdentityPoolProviderName,
                         IdentityProviderIdMaxLen)],
      [type |-> "gcp:artifactregistry/repositoryIamMember:RepositoryIamMember",
       name |-> cfg.ResourcePrefix \o "-repo-iam-roles/artifactregistry.writer"],
      [type |-> "gcp:projects/iAMMember:IAMMember",
       name |-> cfg.ResourcePrefix \o "-proj-iam-roles/containeranalysis.notes.editor"],
      [type |-> "gcp:projects/iAMMember:IAMMember",
       name |-> cfg.ResourcePrefix
                    \o "-proj-iam-roles/containeranalysis.occurrences.editor"]>>
        \o (IF cfg.CreateServiceAccount
            THEN <<[type |-> "gcp:serviceaccount/account:Account",
                    name |-> capToMax(cfg.ResourcePrefix \o "-github-actions-sa",
                                      ServiceAccountIdMaxLen)],
                   [type |-> "gcp:serviceaccount/iAMMember:IAMMember",
                    name |-> cfg.ResourcePrefix \o "-workload-identity-user"]>>
            ELSE <<>>)

(* NewGithubGoogleRegistryStack: the struct it returns when every call succeeds *)
StackOf(cfg, poolNameOut) ==
    LET repositoryName == capToMax(cfg.ResourcePrefix \o "-" \o cfg.RepositoryName,
                                   RepositoryIdMaxLen)
        repoName == extractRepoName(cfg.AllowedRepoURL)
        identityPoolName == capToMax(cfg.ResourcePrefix \o "-github-actions-pool",
                                     IdentityPoolIdMaxLen)
        identityProviderName ==
            capToMax(cfg.ResourcePrefix \o "-" \o cfg.IdentityPoolProviderName,
                     IdentityProviderIdMaxLen)
        serviceAccountName == capToMax(cfg.ResourcePrefix \o "-github-actions-sa",
                                       ServiceAccountIdMaxLen)
        repoPrincipalID == "principalSet://iam.googleapis.com/" \o poolNameOut
                               \o "/attribute.repository/" \o repoName
    IN [RegistryURL |-> cfg.RepositoryLocation \o "-docker.pkg.dev/" \o cfg.GCPProject
                            \o "/" \o repositoryName,
        RepositoryPrincipalID |-> repoPrincipalID,
        RepositoryIAMMembers |->
            <<[name |-> cfg.ResourcePrefix \o "-repo-iam-roles/artifactregistry.writer",
               Role |-> "roles/artifactregistry.writer",
               Member |-> repoPrincipalID]>>,
        ProjectIAMMembers |->
            <<[name |-> cfg.ResourcePrefix
                            \o "-proj-iam-roles/containeranalysis.notes.editor",
               Role |-> "roles/containeranalysis.notes.editor",
               Member |-> repoPrincipalID],
              [name |-> cfg.ResourcePrefix
                            \o "-proj-iam-roles/containeranalysis.occurrences.editor",
               Role |-> "roles/containeranalysis.occurrences.editor",
               Member |-> repoPrincipalID]>>,
        WorkloadIdentityPool |->
            <<[name |-> identityPoolName,
               ID |-> ResourceID(identityPoolName),
               Name |-> poolNameOut,
               WorkloadIdentityPoolId |-> identityPoolName]>>,
        OidcProvider |->
            <<[name |-> identityProviderName,
               ID |-> ResourceID(identityProviderName),
               WorkloadIdentityPoolProviderId |-> identityProviderName,
               AttributeMapping |-> AttributeMapping,
               IssuerUri |-> IssuerUri,
               AttributeCondition |-> buildAttributeCondition(repoName, cfg)]>>,
        GitHubActionsServiceAccount |->
            IF cfg.CreateServiceAccount
            THEN <<[name |-> serviceAccountName,
                    ID |-> ResourceID(serviceAccountName),
                    AccountId |-> serviceAccountName,
                    Email |-> AccountEmail(serviceAccountName)]>>
            ELSE <<>>]

(* Variant that exports the pool ID without marking it secret *)
MainExports_PlainPoolID(infra) ==
    <<[name |-> "registryURL", value |-> infra.RegistryURL, secret |-> FALSE],
      [name |-> "serviceAccountEmail",
       value |-> infra.GitHubActionsServiceAccount[1].Email, secret |-> TRUE],
      [name |-> "workloadIdentityPoolID",
       value |-> infra.WorkloadIdentityPool[1].ID, secret |-> FALSE],
      [name |-> "workloadIdentityProviderID",
       value |-> infra.OidcProvider[1].ID, secret |-> TRUE],
      [name |-> "workloadIdentityProviderCondition",
       value |-> infra.OidcProvider[1].AttributeCondition, secret |-> FALSE]>>

(* main: the ctx.Export calls, in order; pulumi.ToSecret marks the value *)
MainExports(infra) ==
    <<[name |-> "registryURL", value |-> infra.RegistryURL, secret |-> FALSE],
      [name |-> "serviceAccountEmail",
       value |-> infra.GitHubActionsServiceAccount[1].Email, secret |-> TRUE],
      [name |-> "workloadIdentityPoolID",
       value |-> infra.WorkloadIdentityPool[1].ID, secret |-> TRUE],
      [name |-> "workloadIdentityProviderID",
       value |-> infra.OidcProvider[1].ID, secret |-> TRUE],
      [name |-> "workloadIdentityProviderCondition",
       value |-> infra.OidcProvider[1].AttributeCondition, secret |-> FALSE]>>

MainInit ==
    /\ env \in Envs
    /\ config = <<>>
    /\ pc = "loadConfig"
    /\ err = ""
    /\ ret = "pending"
    /\ l = NoLocals
    /\ declared = <<>>
    /\ r = NoFields
    /\ attempted = <<>>
    /\ exports = <<>>
    /\ ciInfra = <<>>
    /\ resolved = NoneResolved

(* main: config, err := ci.LoadConfig(); a failure is returned *)
MainLoadConfig ==
    /\ pc = "loadConfig"
    /\ LET res == LoadConfig(env)
       IN /\ config' = res.config
          /\ err' = res.err
          /\ pc' = IF res.err # "" THEN "failed" ELSE "newStack"
          /\ ret' = IF res.err # "" THEN "error" ELSE ret
    /\ UNCHANGED <<l, declared, r, attempted, env, exports, ciInfra, resolved>>

(* main: ciInfra, err := ci.NewGithubGoogleRegistryStack(ctx, config); the *)
(* first engine call that fails makes it return nil and that error         *)
MainNewStack ==
    /\ pc = "newStack"
    /\ LET cfg == config[1]
           calls == StackDeclarations(cfg)
           identityPoolName == capToMax(cfg.ResourcePrefix \o "-github-actions-pool",
                                        IdentityPoolIdMaxLen)
       IN \/ \E nameOut \in PoolNameOutputs(cfg.GCPProject, identityPoolName,
                                            identityPoolName) :
                /\ ciInfra' = <<StackOf(cfg, nameOut)>>
                /\ declared' = calls
                /\ attempted' = [i \in 1..Len(calls) |->
                                    [type |-> calls[i].type, name |-> calls[i].name,
                                     ok |-> TRUE]]
                /\ pc' = "export"
                /\ UNCHANGED <<err, ret>>
          \/ \E n \in 1..Len(calls) :
                /\ ciInfra' = <<>>
                /\ declared' = SubSeq(calls, 1, n - 1)
                /\ attempted' = [i \in 1..n |->
                                    [type |-> calls[i].type, name |-> calls[i].name,
                                     ok |-> i < n]]
                /\ err' = EngineErr
                /\ ret' = "error"
                /\ pc' = "failed"
    /\ UNCHANGED <<config, l, r, env, exports, resolved>>

(* main: the five ctx.Export calls and return nil; reading Email through a *)
(* nil GitHubActionsServiceAccount panics after the first export           *)
MainExport ==
    /\ pc = "export"
    /\ IF ciInfra[1].GitHubActionsServiceAccount = <<>>
       THEN /\ exports' = <<[name |-> "registryURL", value |-> ciInfra[1].RegistryURL,
                             secret |-> FALSE]>>
            /\ pc' = "panic"
            /\ ret' = "panic"
       ELSE /\ exports' = MainExports(ciInfra[1])
            /\ pc' = "returned"
            /\ ret' = "nil"
    /\ UNCHANGED <<config, err, l, declared, r, attempted, env, ciInfra, resolved>>

MainNext ==
    \/ MainLoadConfig
    \/ MainNewStack
    \/ MainExport

MainSpec == MainInit /\ [][MainNext]_vars

-----------------------------------------------------------------------------
(* Output resolution. The declaration pass only builds outputs; the engine *)
(* resolves a resource's outputs once the resource is registered, which    *)
(* needs every output among its inputs, and a formatted output resolves    *)
(* once every argument has. The pass never reads `resolved`.               *)

deployVars == <<config, pc, err, ret, l, declared, r, attempted, env, exports, ciInfra>>

Resolve(o, v) == resolved' = [resolved EXCEPT ![o] = <<v>>]

(* The pool's inputs are plain strings *)
ResolvePoolId ==
    /\ l.workloadIdentityPool # <<>>
    /\ resolved["workloadIdentityPool.WorkloadIdentityPoolId"] = <<>>
    /\ Resolve("workloadIdentityPool.WorkloadIdentityPoolId",
               l.workloadIdentityPool[1].WorkloadIdentityPoolId)
    /\ UNCHANGED deployVars

(* The provider takes identityPool.WorkloadIdentityPoolId as an input *)
ResolveProviderId ==
    /\ l.oidcProvider # <<>>
    /\ resolved["workloadIdentityPool.WorkloadIdentityPoolId"] # <<>>
    /\ resolved["oidcProvider.WorkloadIdentityPoolProviderId"] = <<>>
    /\ Resolve("oidcProvider.WorkloadIdentityPoolProviderId",
               l.oidcProvider[1].WorkloadIdentityPoolProviderId)
    /\ UNCHANGED deployVars

(* The project lookup's inputs are plain strings *)
ResolveProjectNumber ==
    /\ l.project # <<>>
    /\ resolved["project.Number"] = <<>>
    /\ Resolve("project.Number", l.project[1].Number)
    /\ UNCHANGED deployVars

(* The value an argument contributes to the formatted string *)
Arg(res, o) == IF res[o] = <<>> THEN "" ELSE res[o][1]

(* Variant that does not wait for the project lookup *)
SprintfArgsResolved_WithoutProject(res) ==
    /\ res["workloadIdentityPool.WorkloadIdentityPoolId"] # <<>>
    /\ res["oidcProvider.WorkloadIdentityPoolProviderId"] # <<>>

(* pulumi.Sprintf over project.Number, the pool ID and the provider ID *)
SprintfArgsResolved(res) ==
    /\ res["project.Number"] # <<>>
    /\ res["workloadIdentityPool.WorkloadIdentityPoolId"] # <<>>
    /\ res["oidcProvider.WorkloadIdentityPoolProviderId"] # <<>>

(* deploy: workloadIdentityPoolProviderID, built after GetProject returned *)
ResolveWorkloadIdentityPoolProviderID ==
    /\ pc = "done"
    /\ SprintfArgsResolved(resolved)
    /\ resolved["WorkloadIdentityPoolProviderID"] = <<>>
    /\ Resolve("WorkloadIdentityPoolProviderID",
               WorkloadIdentityPoolProviderIDOf(
                   config,
                   [Number |-> Arg(resolved, "project.Number")],
                   [WorkloadIdentityPoolId |->
                       Arg(resolved, "workloadIdentityPool.WorkloadIdentityPoolId")],
                   [WorkloadIdentityPoolProviderId |->
                       Arg(resolved, "oidcProvider.WorkloadIdentityPoolProviderId")]))
    /\ UNCHANGED deployVars

(* Configurations of the runs in which resolution is interleaved *)
OutputConfigs ==
    {c \in Configs :
        /\ c.AllowedRepoURL = "https://github.com/test/repo"
        /\ c.RepositoryOwner = ""
        /\ c.RepositoryOwnerID = ""
        /\ c.RepositoryID = ""
        /\ c.IdentityPoolProviderName = "gh"
        /\ c.ResourcePrefix = "ci"
        /\ c.RepositoryName = "registry"
        /\ c.RepositoryLocation = "us"
        /\ ~c.ProtectResources}

OutputsInit ==
    /\ Init
    /\ config \in OutputConfigs
    /\ env = MinimalEnv

OutputsNext ==
    \/ Next
    \/ ResolvePoolId
    \/ ResolveProviderId
    \/ ResolveProjectNumber
    \/ ResolveWorkloadIdentityPoolProviderID

OutputsSpec == OutputsInit /\ [][OutputsNext]_vars

-----------------------------------------------------------------------------
(* Configurations whose values carry a double quote, && or || *)

InjectionURLs ==
    {"https://github.com/test/repo", "test/repo",
     "https://github.com/test/repo\" || \"a\" == \"a"}

InjectionOwners == {"", "test", "x\" || attribute.event_name == \"push"}

InjectionOwnerIDs == {"", "1234567890", "1\" && \"a\" == \"a"}

InjectionConfigs ==
    [GCPProject : {"test-project"},
     GCPRegion : {"us-central1"},
     RepositoryLocation : {"us"},
     AllowedRepoURL : InjectionURLs,
     RepositoryOwner : InjectionOwners,
     RepositoryOwnerID : InjectionOwnerIDs,
     RepositoryID : {"", "987654321"},
     IdentityPoolProviderName : {"github-actions-provider"},
     ResourcePrefix : {"ci"},
     RepositoryName : {"registry"},
     CreateServiceAccount : BOOLEAN,
     ProtectResources : {FALSE},
     RecentImageRetentionCount : {10},
     OldImageDeletionDays : {"30d"}]

InjectionInit ==
    /\ config \in InjectionConfigs
    /\ pc = "register"
    /\ err = ""
    /\ ret = "pending"
    /\ l = NoLocals
    /\ declared = <<>>
    /\ r = NoFields
    /\ attempted = <<>>
    /\ env = MinimalEnv
    /\ exports = <<>>
    /\ ciInfra = <<>>
    /\ resolved = NoneResolved

InjectionSpec == InjectionInit /\ [][Next]_vars

-----------------------------------------------------------------------------
(* Properties *)

CountDeclared(type) == Cardinality({i \in DOMAIN declared : declared[i].type = type})

RolesOf(members) == [i \in 1..Len(members) |-> members[i].Role]

(* Every binding of the deployment, whatever the resource it is set on *)
AllBindingMembers ==
    {l.repoIAMMembers[i].Member : i \in 1..Len(l.repoIAMMembers)}
        \cup {l.projectIAMMembers[i].Member : i \in 1..Len(l.projectIAMMembers)}
        \cup {l.sbomBucketIAMMember[i].Member : i \in 1..Len(l.sbomBucketIAMMember)}
        \cup {l.saIAMMember[i].Member : i \in 1..Len(l.saIAMMember)}

(* C1: the declared workload-identity-pool ID and identity-provider ID are *)
(* each at most 32 characters long, for every prefix and provider name.    *)
C1_PoolAndProviderIdAtMost32 ==
    /\ \A i \in 1..Len(l.workloadIdentityPool) :
           Len(l.workloadIdentityPool[i].WorkloadIdentityPoolId) <= 32
    /\ \A i \in 1..Len(l.oidcProvider) :
           Len(l.oidcProvider[i].WorkloadIdentityPoolProviderId) <= 32

C1_Witness ==
    /\ l.oidcProvider # <<>>
    /\ Len(config.ResourcePrefix \o "-github-actions-pool") > 32
    /\ Len(config.ResourcePrefix \o "-" \o config.IdentityPoolProviderName) > 32
    /\ Len(l.workloadIdentityPool[1].WorkloadIdentityPoolId) = 32
    /\ Len(l.oidcProvider[1].WorkloadIdentityPoolProviderId) = 32

RECURSIVE JoinAnd(_)
JoinAnd(clauses) ==
    IF Len(clauses) = 1 THEN clauses[1]
    ELSE clauses[1] \o " && " \o JoinAnd(Tail(clauses))

ExpectedClauses(slug, cfg) ==
    <<"attribute.repository == \"" \o slug \o "\"">>
        \o (IF cfg.RepositoryOwner = "" THEN <<>>
            ELSE <<"attribute.repository_owner == \"" \o cfg.RepositoryOwner \o "\"">>)
        \o (IF cfg.RepositoryOwnerID = "" THEN <<>>
            ELSE <<"attribute.repository_owner_id == \"" \o cfg.RepositoryOwnerID \o "\"">>)
        \o (IF cfg.RepositoryID = "" THEN <<>>
            ELSE <<"attribute.repository_id == \"" \o cfg.RepositoryID \o "\"">>)

(* C2: the attribute condition starts with the repository clause and then  *)
(* holds the owner, owner-ID and repository-ID clauses, each iff its value *)
(* is non-empty, joined with " && " in that order.                         *)
C2_AttributeConditionClauses ==
    \A i \in 1..Len(l.oidcProvider) :
        LET cond == l.oidcProvider[i].AttributeCondition
        IN /\ StartsWith(cond, "attribute.repository == \"" \o l.repoName \o "\"")
           /\ cond = JoinAnd(ExpectedClauses(l.repoName, config))

C2_Witness ==
    /\ l.oidcProvider # <<>>
    /\ config.RepositoryOwner = ""
    /\ config.RepositoryOwnerID # ""
    /\ config.RepositoryID # ""
    /\ l.oidcProvider[1].AttributeCondition =
           "attribute.repository == \"" \o l.repoName \o "\""
               \o " && attribute.repository_owner_id == \"1234567890\""
               \o " && attribute.repository_id == \"987654321\""

(* C3: the federated principal is principalSet://iam.googleapis.com/<pool  *)
(* resource name>/attribute.repository/<slug> and the Member of every IAM  *)
(* binding of the deployment (repository, project, SBOM bucket, service    *)
(* account) is that string.                                                *)
C3_PrincipalOnEveryBinding ==
    /\ l.oidcProvider # <<>> =>
           l.repoPrincipalID =
               "principalSet://iam.googleapis.com/" \o l.workloadIdentityPool[1].Name
                   \o "/attribute.repository/" \o extractRepoName(config.AllowedRepoURL)
    /\ \A m \in AllBindingMembers : m = l.repoPrincipalID

(* C4: a service account and its workloadIdentityUser binding are declared *)
(* iff CreateServiceAccount: none of them (and a nil field) when the flag  *)
(* is false, exactly one of each in a completed deployment when it is true.*)
C4_ServiceAccountIffFlag ==
    /\ ~config.CreateServiceAccount =>
           /\ CountDeclared("gcp:serviceaccount/account:Account") = 0
           /\ CountDeclared("gcp:serviceaccount/iAMMember:IAMMember") = 0
           /\ l.githubActionsSA = <<>> /\ l.saIAMMember = <<>>
           /\ r.GitHubActionsServiceAccount = <<>>
    /\ CountDeclared("gcp:serviceaccount/account:Account") <= 1
    /\ CountDeclared("gcp:serviceaccount/iAMMember:IAMMember") <= 1
    /\ (pc = "done" /\ config.CreateServiceAccount) =>
           /\ CountDeclared("gcp:serviceaccount/account:Account") = 1
           /\ CountDeclared("gcp:serviceaccount/iAMMember:IAMMember") = 1
           /\ Len(l.saIAMMember) = 1
           /\ l.saIAMMember[1].Role = "roles/iam.workloadIdentityUser"
           /\ Len(r.GitHubActionsServiceAccount) = 1

C4_Witness ==
    /\ pc = "done"
    /\ ~config.CreateServiceAccount
    /\ r.SBOMBucketIAMMember # <<>>
    /\ r.GitHubActionsServiceAccount = <<>>
    /\ CountDeclared("gcp:serviceaccount/account:Account") = 0

(* C5: the workloadIdentityUser binding on the dedicated service account   *)
(* names the federated principal as its member.                            *)
C5_DelegationMemberIsPrincipal ==
    \A i \in 1..Len(l.saIAMMember) :
        /\ l.saIAMMember[i].Role = "roles/iam.workloadIdentityUser"
        /\ l.saIAMMember[i].Member = l.repoPrincipalID

C7_RegistryURLShape ==
    /\ \A i \in 1..Len(l.registry) :
           LET id == l.registry[i].RepositoryId
               full == config.ResourcePrefix \o "-" \o config.RepositoryName
           IN /\ Len(id) <= 63
              /\ StartsWith(full, id)
              /\ Len(full) <= 63 => id = full
    /\ pc = "done" =>
           r.RegistryURL =
               config.RepositoryLocation \o "-docker.pkg.dev/" \o config.GCPProject
                   \o "/" \o l.registry[1].RepositoryId

C7_Witness ==
    /\ pc = "done"
    /\ config.ResourcePrefix = "ci-with-a-long-prefix"
    /\ config.RepositoryName = "registry"
    /\ r.RegistryURL = "us-docker.pkg.dev/test-project/ci-with-a-long-prefix-registry"

(* C8: WorkloadIdentityPoolProviderID is projects/<project number>/        *)
(* locations/global/workloadIdentityPools/<pool ID>/providers/<provider    *)
(* ID> with the number given by the project lookup, never the textual      *)
(* GCPProject, and the truncated IDs of the declared pool and provider.    *)
C8_ProviderIDPath ==
    pc = "done" =>
        LET poolID == l.workloadIdentityPool[1].WorkloadIdentityPoolId
            providerID == l.oidcProvider[1].WorkloadIdentityPoolProviderId
        IN /\ r.WorkloadIdentityPoolProviderID =
                  "projects/" \o l.project[1].Number
                      \o "/locations/global/workloadIdentityPools/" \o poolID
                      \o "/providers/" \o providerID
           /\ l.project[1].Number \in ProjectNumbers
           /\ ~StartsWith(r.WorkloadIdentityPoolProviderID,
                          "projects/" \o config.GCPProject \o "/")
           /\ Len(poolID) <= 32 /\ Len(providerID) <= 32
           /\ StartsWith(config.ResourcePrefix \o "-github-actions-pool", poolID)
           /\ StartsWith(config.ResourcePrefix \o "-" \o config.IdentityPoolProviderName,
                         providerID)

C8_Witness ==
    /\ pc = "done"
    /\ config.GCPProject = "test-project"
    /\ r.WorkloadIdentityPoolProviderID =
           "projects/123456789012/locations/global/workloadIdentityPools/"
               \o "ci-with-a-long-prefix-github-act/providers/"
               \o "ci-with-a-long-prefix-github-act"

(* C9: extractRepoName removes exactly the 19-character prefix             *)
(* https://github.com/ from an input that starts with it and is longer     *)
(* than it, and returns every other input, the bare prefix included,       *)
(* unchanged; a non-empty input never gives an empty slug.                 *)
C9_ExtractRepoName ==
    l.registry # <<>> =>
        LET url == config.AllowedRepoURL
            slug == l.repoName
        IN /\ Len("https://github.com/") = 19
           /\ (StartsWith(url, "https://github.com/") /\ Len(url) > 19) =>
                  /\ "https://github.com/" \o slug = url
                  /\ Len(slug) = Len(url) - 19
           /\ ~(StartsWith(url, "https://github.com/") /\ Len(url) > 19) => slug = url
           /\ url = "https://github.com/" => slug = "https://github.com/"
           /\ url = "https://github.com/test/repo" => slug = "test/repo"
           /\ url # "" => slug # ""

C9_Witness ==
    /\ l.registry # <<>>
    /\ config.AllowedRepoURL = "https://github.com/test/repo"
    /\ l.repoName = "test/repo"

(* C10: the SBOM bucket is named artifacts-<GCPProject>-sbom, whatever the *)
(* prefix, the repository name and the region.                             *)
C10_SBOMBucketName ==
    \A i \in 1..Len(l.sbomBucket) :
        /\ l.sbomBucket[i].Name = "artifacts-" \o config.GCPProject \o "-sbom"
        /\ l.sbomBucket[i].name = l.sbomBucket[i].Name

C10_Witness ==
    /\ l.sbomBucket # <<>>
    /\ config.ResourcePrefix = "ci-with-a-long-prefix"
    /\ config.GCPProject = "test-project"
    /\ l.sbomBucket[1].Name = "artifacts-test-project-sbom"

C12_RetentionFromVariable ==
    \A i \in 1..Len(l.sbomBucket) :
        l.sbomBucket[i].LifecycleRules[1].Age =
            IF env["SBOM_RETENTION_DAYS"] = <<>> THEN 365
            ELSE DecimalValue(env["SBOM_RETENTION_DAYS"][1])

(* C13: the repository is declared with a cleanup policy that keeps the    *)
(* RecentImageRetentionCount most recent images and one that deletes the   *)
(* images older than OldImageDeletionDays.                                 *)
C13_ImageCleanupPolicy ==
    \A i \in 1..Len(l.registry) :
        LET policies == l.registry[i].CleanupPolicies
        IN /\ \E j \in 1..Len(policies) :
                  /\ policies[j].Action = "KEEP"
                  /\ policies[j].KeepCount = config.RecentImageRetentionCount
           /\ \E j \in 1..Len(policies) :
                  /\ policies[j].Action = "DELETE"
                  /\ policies[j].OlderThan = config.OldImageDeletionDays

(* The declaration steps of NewGithubGoogleRegistry in program order *)
ExpectedStepOrder(cfg) ==
    <<"pulumi-gcp-github-registry:ci:GithubGoogleRegistry",
      "gcp:projects/service:Service",
      "gcp:artifactregistry/repository:Repository",
      "gcp:iam/workloadIdentityPool:WorkloadIdentityPool",
      "gcp:iam/workloadIdentityPoolProvider:WorkloadIdentityPoolProvider",
      "gcp:artifactregistry/repositoryIamMember:RepositoryIamMember",
      "gcp:projects/iAMMember:IAMMember",
      "gcp:projects/iAMMember:IAMMember",
      "gcp:projects/iAMMember:IAMMember",
      "gcp:storage/bucket:Bucket",
      "gcp:storage/bucketIAMMember:BucketIAMMember">>
        \o (IF cfg.CreateServiceAccount
            THEN <<"gcp:serviceaccount/account:Account",
                   "gcp:serviceaccount/iAMMember:IAMMember">>
            ELSE <<>>)
        \o <<"gcp:organizations/project:Project">>

(* C14: every declaration step is attempted at most once and in program    *)
(* order; once a step fails no later step is attempted and the constructor *)
(* returns a nil component with an error that wraps the original failure   *)
(* behind a contextual prefix.                                             *)
C14_FailureAbortsDeclaration ==
    LET n == Len(attempted)
    IN /\ \A i, j \in 1..n :
              (attempted[i].type = attempted[j].type
               /\ attempted[i].name = attempted[j].name) => i = j
       /\ n <= Len(ExpectedStepOrder(config))
       /\ \A i \in 1..n : attempted[i].type = ExpectedStepOrder(config)[i]
       /\ \A i \in 1..(n - 1) : attempted[i].ok
       /\ pc = "failed" <=> (n > 0 /\ ~attempted[n].ok)
       /\ pc = "failed" =>
              /\ ret = "nil"
              /\ r = NoFields
              /\ EndsWith(err, ": " \o EngineErr)
              /\ IF n = 1
                 THEN err = "failed to register component resource: " \o EngineErr
                 ELSE /\ StartsWith(err, "failed to deploy component resources: failed to ")
                      /\ Len(err) > Len("failed to deploy component resources: ")
                                        + Len(EngineErr)
       /\ pc # "failed" => err = ""
       /\ ret = "component" <=> pc = "done"
       /\ pc = "done" => n = Len(ExpectedStepOrder(config))

C14_Witness ==
    /\ pc = "failed"
    /\ Len(attempted) = 10
    /\ attempted[10].type = "gcp:storage/bucket:Bucket"
    /\ ~attempted[10].ok
    /\ ret = "nil"
    /\ err = "failed to deploy component resources: failed to create SBOM bucket: "
                 \o "failed to create SBOM bucket: engine error"

ExportNames == [i \in 1..Len(exports) |-> exports[i].name]

(* C15: whenever stack construction succeeds, with CreateServiceAccount    *)
(* true or false, main exports registryURL, serviceAccountEmail,           *)
(* workloadIdentityPoolID, workloadIdentityProviderID and                  *)
(* workloadIdentityProviderCondition and returns without error or panic.   *)
C15_MainExportsAndReturns ==
    /\ pc # "panic"
    /\ (ciInfra # <<>> /\ pc # "export") =>
           /\ pc = "returned"
           /\ err = ""
           /\ ExportNames = <<"registryURL", "serviceAccountEmail",
                              "workloadIdentityPoolID", "workloadIdentityProviderID",
                              "workloadIdentityProviderCondition">>

C17_RequiredVariables ==
    pc # "loadConfig" =>
        /\ (env["GCP_PROJECT"] = <<>> \/ env["GCP_REGION"] = <<>>) =>
               /\ config = <<>>
               /\ pc = "failed"
               /\ StartsWith(err, "failed to load configuration from environment variables: ")
        /\ config # <<>> =>
               /\ env["GCP_PROJECT"] # <<>>
               /\ env["GCP_REGION"] # <<>>
               /\ config[1].GCPProject = env["GCP_PROJECT"][1]
               /\ config[1].GCPRegion = env["GCP_REGION"][1]

C17_Witness ==
    /\ pc = "failed"
    /\ config = <<>>
    /\ env["GCP_PROJECT"] # <<>>
    /\ env["GCP_REGION"] = <<>>
    /\ err = "failed to load configuration from environment variables: "
                 \o "required key GCP_REGION missing value"

(* The variables LoadConfig reads *)
ConfigKeys == {ConfigTags[i].key : i \in 1..Len(ConfigTags)}

(* C18: every environment variable read by LoadConfig is required: if any  *)
(* one of them is not set LoadConfig returns an error.                     *)
C18_AllVariablesRequired ==
    (pc # "loadConfig" /\ \E k \in ConfigKeys : env[k] = <<>>) =>
        /\ config = <<>>
        /\ err # ""

(* C19: in a returned Config RepositoryLocation is REPOSITORY_LOCATION     *)
(* when that is set and non-empty and GCPRegion otherwise, it is never     *)
(* empty, and every other field is as loaded.                              *)
C19_RepositoryLocationDefault ==
    config # <<>> =>
        LET c == config[1]
            loc == env["REPOSITORY_LOCATION"]
            loaded == Process(ConfigTags, env, 1, ZeroConfig).config
        IN /\ c.RepositoryLocation =
                  IF loc # <<>> /\ loc[1] # "" THEN loc[1] ELSE c.GCPRegion
           /\ c.RepositoryLocation # ""
           /\ \A i \in 1..Len(ConfigTags) :
                  ConfigTags[i].field # "RepositoryLocation"
                      => c[ConfigTags[i].field] = loaded[ConfigTags[i].field]

(* C20: the provider is declared with the fixed attribute mapping          *)
(* (google.subject from assertion.sub, every attribute.X from assertion.X  *)
(* for the eleven mapped claims) and the GitHub OIDC issuer, whatever the  *)
(* configuration.                                                          *)
C20_FixedMappingAndIssuer ==
    \A i \in 1..Len(l.oidcProvider) :
        LET m == l.oidcProvider[i].AttributeMapping
            claims == {"repository", "repository_owner", "repository_owner_id",
                       "repository_id", "actor", "ref", "sha", "workflow",
                       "head_ref", "base_ref", "aud"}
        IN /\ DOMAIN m = {"google.subject"} \cup {"attribute." \o c : c \in claims}
           /\ m["google.subject"] = "assertion.sub"
           /\ \A c \in claims : m["attribute." \o c] = "assertion." \o c
           /\ l.oidcProvider[i].IssuerUri = "https://token.actions.githubusercontent.com"

C20_Witness ==
    /\ l.oidcProvider # <<>>
    /\ config.ResourcePrefix = "ci"
    /\ config.IdentityPoolProviderName = "gh"
    /\ config.RepositoryOwner = ""
    /\ Cardinality(DOMAIN l.oidcProvider[1].AttributeMapping) = 12
    /\ l.oidcProvider[1].AttributeMapping["attribute.aud"] = "assertion.aud"

(* The provider path as formatted from a project number and the two IDs *)
ProviderPath(number, poolID, providerID) ==
    "projects/" \o number \o "/locations/global/workloadIdentityPools/" \o poolID
        \o "/providers/" \o providerID

(* C21: the WorkloadIdentityPoolProviderID output resolves only after the  *)
(* project number, the pool's ID and the provider's ID have resolved, and  *)
(* then to the path built from the looked-up project number; the           *)
(* declaration pass can always take its next step, whatever has resolved.  *)
C21_ProviderIDResolvesLast ==
    /\ [](resolved["WorkloadIdentityPoolProviderID"] # <<>> =>
            /\ resolved["project.Number"] # <<>>
            /\ resolved["workloadIdentityPool.WorkloadIdentityPoolId"] # <<>>
            /\ resolved["oidcProvider.WorkloadIdentityPoolProviderId"] # <<>>
            /\ l.project # <<>>
            /\ l.project[1].Number \in ProjectNumbers
            /\ resolved["WorkloadIdentityPoolProviderID"][1] =
                   ProviderPath(l.project[1].Number,
                                l.workloadIdentityPool[1].WorkloadIdentityPoolId,
                                l.oidcProvider[1].WorkloadIdentityPoolProviderId)
            /\ resolved["WorkloadIdentityPoolProviderID"][1] =
                   r.WorkloadIdentityPoolProviderID)
    /\ [][resolved'["WorkloadIdentityPoolProviderID"] #
              resolved["WorkloadIdentityPoolProviderID"] =>
            /\ resolved["project.Number"] # <<>>
            /\ resolved["workloadIdentityPool.WorkloadIdentityPoolId"] # <<>>
            /\ resolved["oidcProvider.WorkloadIdentityPoolProviderId"] # <<>>]_vars
    /\ [](pc \notin {"done", "failed"} => ENABLED Next)

C21_Witness ==
    /\ resolved["WorkloadIdentityPoolProviderID"] =
           <<"projects/123456789012/locations/global/workloadIdentityPools/"
                 \o "ci-github-actions-pool/providers/ci-gh">>
    /\ resolved["project.Number"] = <<"123456789012">>
    /\ pc = "done"

(* C22: the component's output fields are assigned once, together, and     *)
(* only when every declaration step and the project lookup has succeeded;  *)
(* after a failure every field is unset.                                   *)
C22_FieldsAssignedOnce ==
    /\ [](r # NoFields =>
            /\ pc = "done"
            /\ Len(attempted) = Len(ExpectedStepOrder(config))
            /\ \A i \in 1..Len(attempted) : attempted[i].ok
            /\ l.project # <<>>)
    /\ [](pc = "failed" => r = NoFields)
    /\ [](pc = "done" =>
            /\ r.RegistryURL # ""
            /\ r.WorkloadIdentityPoolProviderID # ""
            /\ r.RepositoryPrincipalID = l.repoPrincipalID
            /\ r.RepositoryPrincipalID # ""
            /\ r.RepositoryIAMMembers = l.repoIAMMembers
            /\ r.RepositoryIAMMembers # <<>>
            /\ r.ProjectIAMMembers = l.projectIAMMembers
            /\ r.ProjectIAMMembers # <<>>
            /\ r.WorkloadIdentityPool = l.workloadIdentityPool
            /\ r.WorkloadIdentityPool # <<>>
            /\ r.OidcProvider = l.oidcProvider
            /\ r.OidcProvider # <<>>
            /\ r.GitHubActionsServiceAccount = l.githubActionsSA
            /\ r.SBOMBucket = l.sbomBucket
            /\ r.SBOMBucket # <<>>
            /\ r.SBOMBucketIAMMember = l.sbomBucketIAMMember
            /\ r.SBOMBucketIAMMember # <<>>)
    /\ [][r' # r => (r = NoFields /\ pc = "getProject" /\ pc' = "done")]_vars

C22_Witness ==
    /\ pc = "done"
    /\ r.SBOMBucket # <<>>
    /\ r.GitHubActionsServiceAccount # <<>>
    /\ r.RegistryURL = "us-docker.pkg.dev/my-project/ci-registry"
    /\ Len(attempted) = 14

(* The first n characters of s, all of s when it is shorter *)
FirstChars(s, n) == IF Len(s) <= n THEN s ELSE SubSeq(s, 1, n)

(* The pool ID and provider ID of the deployment of a configuration with   *)
(* the given prefix and provider name                                      *)
PoolIDFor(prefix) == capToMax(prefix \o "-github-actions-pool", IdentityPoolIdMaxLen)

ProviderIDFor(prefix, providerName) ==
    capToMax(prefix \o "-" \o providerName, IdentityProviderIdMaxLen)

(* What C23 says of the declared IDs, for the other configurations whose   *)
(* prefix satisfies Related                                                *)
TruncationCollisions(Related(_)) ==
    \A i \in 1..Len(l.oidcProvider) :
        LET poolID == l.workloadIdentityPool[1].WorkloadIdentityPoolId
            providerID == l.oidcProvider[i].WorkloadIdentityPoolProviderId
            poolFull == config.ResourcePrefix \o "-github-actions-pool"
            providerFull == config.ResourcePrefix \o "-" \o config.IdentityPoolProviderName
        IN /\ poolID = FirstChars(poolFull, 32)
           /\ providerID = FirstChars(providerFull, 32)
           /\ \A p2 \in ResourcePrefixes, n2 \in IdentityPoolProviderNames :
                  (Related(p2) /\ FirstChars(p2, 32) = FirstChars(config.ResourcePrefix, 32))
                      => /\ PoolIDFor(p2) = poolID
                         /\ ProviderIDFor(p2, n2) = providerID
           /\ FirstChars(poolFull, 32) = FirstChars(providerFull, 32)
                  => poolID = providerID

AnyPrefix(p2) == TRUE

LongPrefixes(p2) == Len(p2) >= 32 /\ Len(config.ResourcePrefix) >= 32

(* C23 as stated: the pool ID and provider ID are the first 32 characters  *)
(* of their untruncated names, any two configurations whose prefixes share *)
(* their first 32 characters get the same pool ID and the same provider ID *)
(* whatever their provider names, and the two IDs of one deployment are    *)
(* equal when the untruncated names agree on their first 32 characters.    *)
C23_TruncationCollisions ==
    TruncationCollisions(AnyPrefix)

(* C23 amended: the same, for prefixes of at least 32 characters.          *)
C23_TruncationCollisionsOfLongPrefixes ==
    TruncationCollisions(LongPrefixes)

C23_Witness ==
    /\ l.oidcProvider # <<>>
    /\ Len(config.ResourcePrefix) = MaxPrefixLen
    /\ config.IdentityPoolProviderName = "gh"
    /\ \E p2 \in ResourcePrefixes :
           /\ p2 # config.ResourcePrefix
           /\ Len(p2) >= 32
           /\ ProviderIDFor(p2, "github-actions-provider")
                  = l.oidcProvider[1].WorkloadIdentityPoolProviderId
    /\ l.oidcProvider[1].WorkloadIdentityPoolProviderId
           = l.workloadIdentityPool[1].WorkloadIdentityPoolId

(* C24: the repository is declared depending on the API-enablement service *)
(* declared before it in the same deployment, and is not declared at all   *)
(* when enabling the API failed.                                           *)
C24_RepositoryDependsOnAPI ==
    /\ \A i \in 1..Len(l.registry) :
           /\ l.registryAPI # <<>>
           /\ l.registry[i].DependsOn = {l.registryAPI[1].name}
           /\ \E a, b \in 1..Len(declared) :
                  /\ a < b
                  /\ declared[a].type = "gcp:projects/service:Service"
                  /\ declared[a].name = l.registryAPI[1].name
                  /\ declared[b].type = "gcp:artifactregistry/repository:Repository"
                  /\ declared[b].name = l.registry[i].name
    /\ \A b \in 1..Len(attempted) :
           attempted[b].type = "gcp:artifactregistry/repository:Repository"
               => \E a \in 1..(b - 1) :
                      /\ attempted[a].type = "gcp:projects/service:Service"
                      /\ attempted[a].ok
    /\ (\E a \in 1..Len(attempted) :
            attempted[a].type = "gcp:projects/service:Service" /\ ~attempted[a].ok)
           => /\ l.registry = <<>>
              /\ pc = "failed"

C24_Witness ==
    /\ l.registry # <<>>
    /\ l.registry[1].DependsOn = {"ci-artifactregistry-api"}
    /\ declared[2].name = "ci-artifactregistry-api"
    /\ declared[3].type = "gcp:artifactregistry/repository:Repository"

(* C25: the repository is declared with the protect option equal to the    *)
(* ProtectResources flag, and no other declaration carries a protect       *)
(* option at all.                                                          *)
C25_OnlyRepositoryProtected ==
    /\ \A i \in 1..Len(declared) :
           declared[i].protect =
               IF declared[i].type = "gcp:artifactregistry/repository:Repository"
               THEN <<config.ProtectResources>>
               ELSE <<>>
    /\ \A i \in 1..Len(l.registry) : l.registry[i].Protect = config.ProtectResources

C25_Witness ==
    /\ pc = "done"
    /\ config.ProtectResources
    /\ declared[3].protect = <<TRUE>>
    /\ declared[10].type = "gcp:storage/bucket:Bucket"
    /\ declared[10].protect = <<>>

(* Reading a condition the way the expression language lexes it: string   *)
(* literals run from one double quote to the next, and operators and       *)
(* attribute references count only outside literals.                       *)
IdentChars ==
    {"a", "b", "c", "d", "e", "f", "g", "h", "i", "j", "k", "l", "m", "n", "o", "p",
     "q", "r", "s", "t", "u", "v", "w", "x", "y", "z", "_", ".",
     "0", "1", "2", "3", "4", "5", "6", "7", "8", "9"}

StartsWithAt(s, i, p) == i + Len(p) - 1 <= Len(s) /\ SubSeq(s, i, i + Len(p) - 1) = p

(* The first position from j on that does not hold an identifier character *)
IdentEnd(s, j) ==
    LET stops == {k \in j..(Len(s) + 1) :
                     k = Len(s) + 1 \/ SubSeq(s, k, k) \notin IdentChars}
    IN CHOOSE k \in stops : \A k2 \in stops : k <= k2

(* The first position from i on where p occurs in s, 0 when there is none *)
IndexOf(s, p, i) ==
    LET hits == {k \in i..Len(s) : StartsWithAt(s, k, p)}
    IN IF hits = {} THEN 0 ELSE CHOOSE k \in hits : \A k2 \in hits : k <= k2

(* The members of a set of positions in ascending order *)
Ascending(S) ==
    [n \in 1..Cardinality(S) |->
        CHOOSE k \in S : Cardinality({k2 \in S : k2 < k}) = n - 1]

QuotePositions(s) == {k \in 1..Len(s) : SubSeq(s, k, k) = "\""}

(* A position is outside the literals when an even number of quotes precede it *)
Outside(s, k) ==
    /\ SubSeq(s, k, k) # "\""
    /\ Cardinality({q \in QuotePositions(s) : q < k}) % 2 = 0

Tokens(s) ==
    LET quotes == Ascending(QuotePositions(s))
        refs == Ascending({k \in 1..Len(s) :
                              Outside(s, k) /\ StartsWithAt(s, k, "attribute.")})
    IN [literals |-> [n \in 1..(Len(quotes) \div 2) |->
                         SubSeq(s, quotes[2 * n - 1] + 1, quotes[2 * n] - 1)],
        open |-> Len(quotes) % 2 = 1,
        ands |-> Cardinality({k \in 1..Len(s) :
                                 Outside(s, k) /\ StartsWithAt(s, k, "&&")}),
        ors |-> Cardinality({k \in 1..Len(s) :
                                Outside(s, k) /\ StartsWithAt(s, k, "||")}),
        attrs |-> [n \in 1..Len(refs) |->
                      SubSeq(s, refs[n], IdentEnd(s, refs[n]) - 1)]]

(* The clauses a configuration asks for: attribute and value *)
ConfiguredClauses(cfg, slug) ==
    <<[attr |-> "attribute.repository", value |-> slug]>>
        \o (IF cfg.RepositoryOwner # ""
            THEN <<[attr |-> "attribute.repository_owner", value |-> cfg.RepositoryOwner]>>
            ELSE <<>>)
        \o (IF cfg.RepositoryOwnerID # ""
            THEN <<[attr |-> "attribute.repository_owner_id",
                    value |-> cfg.RepositoryOwnerID]>>
            ELSE <<>>)
        \o (IF cfg.RepositoryID # ""
            THEN <<[attr |-> "attribute.repository_id", value |-> cfg.RepositoryID]>>
            ELSE <<>>)

(* C26: the attribute condition is a conjunction of exactly 1 + k equality *)
(* clauses and every configured value, the slug included, occurs only as   *)
(* the quoted right-hand side of its own clause, also when a value holds a *)
(* double quote, && or ||.                                                 *)
C26_ConditionNotInjectable ==
    \A i \in 1..Len(l.oidcProvider) :
        LET t == Tokens(l.oidcProvider[i].AttributeCondition)
            clauses == ConfiguredClauses(config, extractRepoName(config.AllowedRepoURL))
        IN /\ ~t.open
           /\ t.literals = [j \in 1..Len(clauses) |-> clauses[j].value]
           /\ t.attrs = [j \in 1..Len(clauses) |-> clauses[j].attr]
           /\ t.ands = Len(clauses) - 1
           /\ t.ors = 0

(* The slug and the attribute of a federated principal string *)
PrincipalSlug(principal) ==
    LET at == IndexOf(principal, "/attribute.repository/", 1)
    IN SubSeq(principal, at + Len("/attribute.repository/"), Len(principal))

PrincipalAttribute(principal) ==
    LET at == IndexOf(principal, "/attribute.", 1)
    IN SubSeq(principal, at + 1, IdentEnd(principal, at + 1) - 1)

(* C27: the repository slug of the federated principal is the value the    *)
(* condition compares attribute.repository with, both being                *)
(* extractRepoName(AllowedRepoURL).                                        *)
C27_SameSlugInPrincipalAndCondition ==
    \A i \in 1..Len(l.oidcProvider) :
        LET t == Tokens(l.oidcProvider[i].AttributeCondition)
        IN /\ StartsWith(l.oidcProvider[i].AttributeCondition, "attribute.repository == \"")
           /\ Len(t.literals) >= 1
           /\ PrincipalSlug(l.repoPrincipalID) = extractRepoName(config.AllowedRepoURL)
           /\ t.literals[1] = PrincipalSlug(l.repoPrincipalID)

(* C28: every attribute the condition or the federated principal refers to *)
(* is a key of the provider's attribute mapping.                           *)
C28_ReferencedAttributesAreMapped ==
    \A i \in 1..Len(l.oidcProvider) :
        LET t == Tokens(l.oidcProvider[i].AttributeCondition)
            referenced == {t.attrs[j] : j \in 1..Len(t.attrs)}
                              \cup {PrincipalAttribute(l.repoPrincipalID)}
        IN /\ "attribute.repository" \in referenced
           /\ referenced \subseteq DOMAIN l.oidcProvider[i].AttributeMapping

=============================================================================
